---- MODULE Spec2Model ----
(***************************************************************************)
(* BigMaac (src/bigmaac.c): an interposed malloc/calloc/realloc/free that  *)
(* serves medium ("fry") and large ("bigmaac") requests from two reserved  *)
(* address ranges, each managed by an address-ordered doubly linked list   *)
(* of blocks plus a size-ordered max-heap of the FREE blocks.              *)
(*                                                                         *)
(* The model is the non-DEBUG build (verify_memory and log_bm are empty).  *)
(* Addresses and sizes are small integers; one unit is one byte.           *)
(***************************************************************************)
EXTENDS Integers, Sequences, FiniteSets, Bags, TLC

VARIABLES
    load_state,         \* enum load_status
    lock,               \* pthread mutex: 0 when free, else the holder
    resolved,           \* the real_* pointers that are not NULL
    min_size_bigmaac,   \* thresholds and sizes (set once, from the environment)
    min_size_fry,
    fry_size_multiple,
    page_size,
    size_fries,
    size_bigmaac,
    base_fries,
    end_fries,
    base_bigmaac,
    end_bigmaac,
    _head_fries,        \* sentinel node of the fry list
    _head_bigmaacs,     \* sentinel node of the bigmaac list
    nodes,              \* the node records on the system heap
    heaps,              \* head->heap, keyed by the head node
    used_fries,
    used_bigmaacs,
    active_mmaps,
    mem,                \* contents / protection of the reserved range
    crashed,            \* the process died on a fault
    pc,                 \* per thread: position in the shim it executes
    frame,              \* per thread: arguments and locals of that shim
    owned,              \* per thread: the pointers the caller holds (ptrs[], sizes[])
    snap                \* arena as it was before the latest allocation

cfgvars == <<load_state, resolved, min_size_bigmaac, min_size_fry, fry_size_multiple, page_size,
             size_fries, size_bigmaac, base_fries, end_fries, base_bigmaac,
             end_bigmaac, _head_fries, _head_bigmaacs>>
arenavars == <<nodes, heaps, used_fries, used_bigmaacs, active_mmaps>>
vars == <<cfgvars, arenavars, lock, mem, crashed, pc, frame, owned, snap>>

-----------------------------------------------------------------------------
(* Bounds of the model *)

\* largest size argument the callers pass
MaxReq == 5
\* largest count argument the callers pass to calloc
MaxCount == 2
\* by how much the used counters may run ahead of the blocks in use
MaxLeak == 4

\* node records the system heap can hold
MaxNodes == 16

Threads == {1, 2}

-----------------------------------------------------------------------------
(* Values *)

NULL == 0
IN_USE == 0
FREE == 1
ENOMEM == 12

LIBRARY_FAIL == -1
NOT_LOADED == 0
LOADING_MEM_FUNCS == 1
LOADING_LIBRARY == 2
LOADED == 3

\* size_t arithmetic wraps; the model keeps it to SIZE_BITS bits
SIZE_BITS == 16
SizeT(x) == x % (2 ^ SIZE_BITS)

\* protection PROT_NONE of a reserved, unattached byte
NoAccess == -1

\* an address the system allocator hands out (outside the reserved range)
SysPtr == NULL + 1

\* real_malloc, real_calloc, real_free, real_realloc
RealFuncs == {"malloc", "calloc", "free", "realloc"}

\* node records live on the system heap; a record that is not allocated
NoNode == [in_use |-> -1]
NodeIds == 1 .. MaxNodes

real_malloc_node(ns) == CHOOSE i \in NodeIds : ns[i] = NoNode /\ \A j \in NodeIds : ns[j] = NoNode => i <= j
real_free(ns, n) == [ns EXCEPT ![n] = NoNode]

-----------------------------------------------------------------------------
(* The size heap.  A heap state st is [n |-> node records, h |-> the heap   *)
(* [used, length, node_array]]; node_array is indexed from 0 as in C and    *)
(* the model keeps only its slots below used (no code reads the others).    *)

LARGER_GAP(st, a, b) ==
    IF st.n[st.h.node_array[a]].size > st.n[st.h.node_array[b]].size THEN a ELSE b

SIZE_TO_MULTIPLE(size, multiple) ==
    IF (size % multiple) > 0 THEN size + (multiple - (size % multiple)) ELSE size

SWAP_NODES(st, idx_a, idx_b) ==
    LET na == st.h.node_array
        n1 == [st.n EXCEPT ![na[idx_a]].heap_idx = idx_b]
        n2 == [n1 EXCEPT ![na[idx_b]].heap_idx = idx_a]
    IN  [st EXCEPT !.n = n2,
                   !.h.node_array = [na EXCEPT ![idx_a] = na[idx_b], ![idx_b] = na[idx_a]]]

\* UNLINK without the store into the successor's previous field
UNLINK_forward(ns, n) ==
    LET nx == ns[n].next
        pv == ns[n].previous
    IN  [ns EXCEPT ![pv].next = nx]

UNLINK(ns, n) ==
    LET nx == ns[n].next
        pv == ns[n].previous
        n1 == [ns EXCEPT ![nx].previous = pv]
    IN  [n1 EXCEPT ![pv].next = nx]

RECURSIVE heapify_up(_, _)
heapify_up(st, idx) ==
    IF idx = 0 THEN st
    ELSE LET parent_idx == (idx - 1) \div 2
         IN  IF LARGER_GAP(st, idx, parent_idx) # parent_idx
             THEN heapify_up(SWAP_NODES(st, idx, parent_idx), parent_idx)
             ELSE st

RECURSIVE heapify_down(_, _)
heapify_down(st, idx) ==
    LET left_child_idx == (idx + 1) * 2 - 1
        right_child_idx == (idx + 1) * 2
        l1 == IF left_child_idx < st.h.used
              THEN LARGER_GAP(st, idx, left_child_idx) ELSE idx
        largest_idx == IF right_child_idx < st.h.used
                       THEN LARGER_GAP(st, l1, right_child_idx) ELSE l1
    IN  IF largest_idx # idx
        THEN heapify_down(SWAP_NODES(st, idx, largest_idx), largest_idx)
        ELSE st

heap_remove_idx(st, idx) ==
    IF st.h.used = 1
    THEN [st EXCEPT !.n[st.h.node_array[0]].heap_idx = -1,
                    !.h.used = 0,
                    !.h.node_array = [i \in {} |-> NULL]]
    ELSE LET na == st.h.node_array
             last == st.h.used - 1
             n1 == [st.n EXCEPT ![na[idx]].heap_idx = -1]
             n2 == [n1 EXCEPT ![na[last]].heap_idx = idx]
             moved == [i \in 0 .. (last - 1) |-> IF i = idx THEN na[last] ELSE na[i]]
         IN  heapify_down([st EXCEPT !.n = n2, !.h.used = last, !.h.node_array = moved], idx)

\* heap_insert that does not record the slot in the node
heap_insert_unindexed(st, n) ==
    LET len == IF st.h.used = st.h.length THEN st.h.length * 2 ELSE st.h.length
        na == [i \in 0 .. st.h.used |-> IF i = st.h.used THEN n ELSE st.h.node_array[i]]
        s1 == [st EXCEPT !.h.length = len,
                         !.h.used = st.h.used + 1,
                         !.h.node_array = na]
    IN  heapify_up(s1, st.h.used)

\* the slot array doubles when full; real_realloc is taken to succeed
heap_insert(st, n) ==
    LET len == IF st.h.used = st.h.length THEN st.h.length * 2 ELSE st.h.length
        na == [i \in 0 .. st.h.used |-> IF i = st.h.used THEN n ELSE st.h.node_array[i]]
        s1 == [st EXCEPT !.n[n].heap_idx = st.h.used,
                         !.h.length = len,
                         !.h.used = st.h.used + 1,
                         !.h.node_array = na]
    IN  heapify_up(s1, st.h.used)

-----------------------------------------------------------------------------
(* The address-ordered list and the arena operations.  Each returns the new *)
(* heap state together with what the C function returns.                    *)

\* heap_free_node that never merges: the block becomes FREE and enters the heap
heap_free_node_unmerged(st, n) ==
    [st |-> heap_insert([st EXCEPT !.n[n].in_use = FREE], n), r |-> 0, crash |-> FALSE]

\* heap_free_node(head, n): r is the return value; crash is the store through
\* n->next == NULL that UNLINK(n) makes when n is the last node of the list
heap_free_node(st, n) ==
    LET nx == st.n[n].next
        pv == st.n[n].previous
        prevFree == pv # NULL /\ st.n[pv].in_use = FREE
    IN  IF nx # NULL /\ st.n[nx].in_use = FREE
        THEN LET s1 == IF prevFree
                       THEN LET a == [st.n EXCEPT ![n].size = @ + st.n[pv].size,
                                                  ![n].ptr = st.n[pv].ptr]
                                b == UNLINK(a, pv)
                                c == heap_remove_idx([st EXCEPT !.n = b], b[pv].heap_idx)
                            IN  [c EXCEPT !.n = real_free(c.n, pv)]
                       ELSE st
                 a2 == [s1.n EXCEPT ![nx].size = @ + s1.n[n].size,
                                    ![nx].ptr = s1.n[n].ptr]
                 b2 == UNLINK(a2, n)
                 c2 == heapify_up([s1 EXCEPT !.n = b2], b2[nx].heap_idx)
             IN  [st |-> [c2 EXCEPT !.n = real_free(c2.n, n)], r |-> 0, crash |-> FALSE]
        ELSE IF prevFree
        THEN LET a == [st.n EXCEPT ![pv].size = @ + st.n[n].size]
             IN  IF nx = NULL
                 THEN [st |-> [st EXCEPT !.n = a], r |-> 0, crash |-> TRUE]
                 ELSE LET b == UNLINK(a, n)
                          c == heapify_up([st EXCEPT !.n = b], b[pv].heap_idx)
                      IN  [st |-> [c EXCEPT !.n = real_free(c.n, n)], r |-> 0, crash |-> FALSE]
        ELSE [st |-> heap_insert([st EXCEPT !.n[n].in_use = FREE], n), r |-> 0, crash |-> FALSE]

\* the block heap_pop_split carves: the root, or a child that is big enough
pick_free_node(st, size) ==
    LET na == st.h.node_array
        left_child_idx == 1
        right_child_idx == 2
        f1 == IF st.h.used > left_child_idx /\ st.n[na[left_child_idx]].size >= size
              THEN na[left_child_idx] ELSE na[0]
    IN  IF /\ st.h.used > right_child_idx
           /\ st.n[na[right_child_idx]].size >= size
           /\ st.n[na[right_child_idx]].size < st.n[f1].size
        THEN na[right_child_idx] ELSE f1

\* new_used_node with the start of the remainder for the start of the block
new_used_node_shifted(fr, free_node, size) ==
    [size |-> size, ptr |-> fr.ptr + size, next |-> free_node, previous |-> fr.previous,
     in_use |-> IN_USE, heap_idx |-> -1]

\* the record of the node a split creates
new_used_node(fr, free_node, size) ==
    [size |-> size, ptr |-> fr.ptr, next |-> free_node, previous |-> fr.previous,
     in_use |-> IN_USE, heap_idx |-> -1]

\* heap_pop_split(head, size); node_ok: real_malloc of the new record succeeds
heap_pop_split(st, size, node_ok) ==
    IF st.h.used = 0 THEN [st |-> st, chunk |-> NULL]
    ELSE IF st.n[st.h.node_array[0]].size < size THEN [st |-> st, chunk |-> NULL]
    ELSE LET free_node == pick_free_node(st, size)
             fr == st.n[free_node]
         IN  IF fr.size = size
             THEN LET s1 == heap_remove_idx(st, fr.heap_idx)
                  IN  [st |-> [s1 EXCEPT !.n[free_node].in_use = IN_USE], chunk |-> free_node]
             ELSE IF ~node_ok THEN [st |-> st, chunk |-> NULL]
             ELSE LET used_node == real_malloc_node(st.n)
                      n1 == [st.n EXCEPT ![used_node] = new_used_node(fr, free_node, size),
                                         ![free_node].size = @ - size,
                                         ![free_node].ptr = @ + size,
                                         ![free_node].previous = used_node,
                                         ![fr.previous].next = used_node]
                  IN  [st |-> heapify_down([st EXCEPT !.n = n1], fr.heap_idx),
                       chunk |-> used_node]

RECURSIVE find_from(_, _, _)
find_from(ns, c, ptr) ==
    IF c = NULL THEN NULL
    ELSE IF ns[c].ptr = ptr THEN c
    ELSE find_from(ns, ns[c].next, ptr)

\* the head whose range holds ptr (the test of heap_find_node and remove_chunk_with_ptr)
head_of(ptr) == IF ptr < base_bigmaac THEN _head_fries ELSE _head_bigmaacs

heap_find_node(ns, ptr) == find_from(ns, head_of(ptr), ptr)

\* ll_new(ptr, size): head[0] the sentinel, head[1] the one FREE block
ll_new_nodes(ns, head, ptr, size) ==
    [ns EXCEPT ![head] = [size |-> 0, ptr |-> NULL, next |-> head + 1, previous |-> NULL,
                          in_use |-> IN_USE, heap_idx |-> -1],
               ![head + 1] = [size |-> size, ptr |-> ptr, next |-> NULL, previous |-> head,
                              in_use |-> FREE, heap_idx |-> 0]]
ll_new_heap(head) == [used |-> 1, length |-> 1, node_array |-> [i \in 0 .. 0 |-> head + 1]]

-----------------------------------------------------------------------------
(* Memory of the reserved range: mem[a] is the byte at a, or NoAccess.      *)

Addrs == base_fries .. (end_bigmaac - 1)

\* mmap_tmpfile(ptr, size): a fresh shared file mapping reads as zero
mmap_tmpfile(m, ptr, size) ==
    [a \in DOMAIN m |-> IF ptr <= a /\ a < ptr + size THEN 0 ELSE m[a]]

\* mmap(PROT_NONE, MAP_ANONYMOUS | MAP_FIXED) over [ptr, ptr+size)
mmap_none(m, ptr, size) ==
    [a \in DOMAIN m |-> IF ptr <= a /\ a < ptr + size THEN NoAccess ELSE m[a]]

\* a load or store of [p, p+len) faults when a byte is not mapped
Faults(m, p, len) ==
    \E a \in p .. (p + len - 1) : a \notin DOMAIN m \/ m[a] = NoAccess

memset(m, p, c, len) ==
    [a \in DOMAIN m |-> IF p <= a /\ a < p + len THEN c ELSE m[a]]

memblock_copy(m, old_ptr, new_ptr, old_size, new_size) ==
    LET k == IF old_size < new_size THEN old_size ELSE new_size
    IN  [a \in DOMAIN m |-> IF new_ptr <= a /\ a < new_ptr + k
                            THEN m[old_ptr + (a - new_ptr)] ELSE m[a]]

\* what the callers write into a block, and what a system block holds
Pattern(i) == i + 1

-----------------------------------------------------------------------------
(* Views of the state *)

Managed(ptr) == ptr >= base_fries /\ ptr < end_bigmaac

RECURSIVE list_from(_, _)
list_from(ns, c) ==
    IF c = NULL THEN <<>>
    ELSE <<[ptr |-> ns[c].ptr, size |-> ns[c].size, in_use |-> ns[c].in_use]>>
         \o list_from(ns, ns[c].next)

\* the blocks of an arena in list order, the sentinel left out
Blocks(head) == list_from(nodes, nodes[head].next)

HeapSet(head) ==
    {[ptr |-> nodes[heaps[head].node_array[i]].ptr,
      size |-> nodes[heaps[head].node_array[i]].size] : i \in 0 .. (heaps[head].used - 1)}

Attached == {a \in Addrs : a >= base_bigmaac /\ mem[a] # NoAccess}

ArenaView ==
    [fries |-> Blocks(_head_fries), bigmaacs |-> Blocks(_head_bigmaacs),
     heap_fries |-> HeapSet(_head_fries), heap_bigmaacs |-> HeapSet(_head_bigmaacs),
     used_fries |-> used_fries, used_bigmaacs |-> used_bigmaacs,
     attached |-> Attached]

NoSnap == [phase |-> "none"]

RECURSIVE SumInUse(_)
SumInUse(bs) ==
    IF bs = <<>> THEN 0
    ELSE (IF Head(bs).in_use = IN_USE THEN Head(bs).size ELSE 0) + SumInUse(Tail(bs))

\* by how much the used counters run ahead of the blocks in use
Leaked ==
    (used_fries - SumInUse(Blocks(_head_fries)))
    + (used_bigmaacs - SumInUse(Blocks(_head_bigmaacs)))

-----------------------------------------------------------------------------
(* Node records are addressed by what real_malloc returned, and no code     *)
(* looks at those addresses.  After every step the model renames the        *)
(* records so that the k-th node of a list is head + k: states that differ  *)
(* only in the addresses of the records are one state.                      *)

RECURSIVE order_from(_, _)
order_from(ns, c) == IF c = NULL THEN <<>> ELSE <<c>> \o order_from(ns, ns[c].next)

Canon(ns, hs, fr) ==
    LET ob == order_from(ns, _head_bigmaacs)
        of == order_from(ns, _head_fries)
        ren(i) == IF i = NULL THEN NULL
                  ELSE IF \E k \in DOMAIN ob : ob[k] = i
                  THEN _head_bigmaacs + (CHOOSE k \in DOMAIN ob : ob[k] = i) - 1
                  ELSE IF \E k \in DOMAIN of : of[k] = i
                  THEN _head_fries + (CHOOSE k \in DOMAIN of : of[k] = i) - 1
                  ELSE NULL
        src(j) == IF j >= _head_fries
                  THEN (IF j - _head_fries + 1 \in DOMAIN of THEN of[j - _head_fries + 1] ELSE NULL)
                  ELSE (IF j - _head_bigmaacs + 1 \in DOMAIN ob THEN ob[j - _head_bigmaacs + 1] ELSE NULL)
    IN  [nodes |-> [j \in NodeIds |->
                       IF src(j) = NULL THEN NoNode
                       ELSE [ns[src(j)] EXCEPT !.next = ren(@), !.previous = ren(@)]],
         heaps |-> [h \in DOMAIN hs |->
                       [hs[h] EXCEPT !.node_array = [i \in DOMAIN @ |-> ren(@[i])]]],
         frame |-> [t \in DOMAIN fr |->
                       [fr[t] EXCEPT !.chunk = ren(@), !.n = ren(@)]]]

-----------------------------------------------------------------------------
(* Threads.  frame[t] holds the arguments and locals of the shim t runs:    *)
(* op the shim, cont the caller of create_chunk / remove_chunk_with_ptr,    *)
(* count/size/ptr the arguments, old_size the usable size of a system       *)
(* block, head, csize, chunk the locals of create_chunk, n the node realloc *)
(* found, p the new pointer, val and errno what the shim returns; was holds *)
(* the bytes of the block at ptr when realloc was called.                   *)

NoFrame ==
    [op |-> "none", cont |-> "none", count |-> 0, size |-> 0, ptr |-> NULL,
     old_size |-> 0, foreign |-> FALSE, head |-> NULL, csize |-> 0, chunk |-> NULL,
     n |-> NULL, p |-> NULL, val |-> NULL, errno |-> 0, was |-> <<>>]

\* the frame of a shim that has returned: its locals are gone
Returned(f, val, errno) ==
    [f EXCEPT !.cont = "none", !.head = NULL, !.csize = 0, !.chunk = NULL, !.n = NULL,
              !.p = NULL, !.val = val, !.errno = errno]

\* the size tests of the shims and of create_chunk
use_chunk(size) == size > min_size_fry
\* is_bigmaac with MIN_BIGMAAC itself a bigmaac
is_bigmaac_incl(size) == size >= min_size_bigmaac
is_bigmaac(size) == size > min_size_bigmaac

\* the multiple create_chunk rounds the size of a block of this head to
multiple_of(head) == IF head = _head_bigmaacs THEN page_size ELSE fry_size_multiple

\* big_enough with a block of exactly the size too small
big_enough_strict(n_size, size) == n_size > size

\* realloc: the block found is big enough
big_enough(n_size, size) == n_size >= size

OwnedPtrs(t) == BagToSet(owned[t])

\* the size of the block that starts at ptr
BlockSize(ptr) == nodes[heap_find_node(nodes, ptr)].size

-----------------------------------------------------------------------------
(* The state once bigmaac_init has succeeded *)

Loaded(minfry, minbig, multiple, page, sfries, sbig, base) ==
    /\ load_state = LOADED
    /\ resolved = RealFuncs
    /\ lock = 0
    /\ min_size_fry = minfry
    /\ min_size_bigmaac = minbig
    /\ fry_size_multiple = multiple
    /\ page_size = page
    /\ size_fries = sfries
    /\ size_bigmaac = sbig
    /\ base_fries = base
    /\ end_fries = base + sfries
    /\ base_bigmaac = base + sfries
    /\ end_bigmaac = base + sfries + sbig
    /\ _head_bigmaacs = 1
    /\ _head_fries = (MaxNodes \div 2) + 1
    /\ nodes = ll_new_nodes(ll_new_nodes([i \in NodeIds |-> NoNode], 1, base + sfries, sbig),
                            (MaxNodes \div 2) + 1, base, sfries)
    /\ heaps = [h \in {1, (MaxNodes \div 2) + 1} |-> ll_new_heap(h)]
    /\ used_fries = 0
    /\ used_bigmaacs = 0
    /\ active_mmaps = 2
    /\ mem = [a \in base .. (base + sfries + sbig - 1) |->
                 IF a < base + sfries THEN 0 ELSE NoAccess]
    /\ crashed = FALSE
    /\ pc = [t \in Threads |-> "idle"]
    /\ frame = [t \in Threads |-> NoFrame]
    /\ owned = [t \in Threads |-> EmptyBag]
    /\ snap = NoSnap

Init == Loaded(1, 3, 2, 4, 4, 8, 8)

-----------------------------------------------------------------------------
(* The callers (the MAIN driver): each thread calls the shims with pointers *)
(* it holds, and writes into the blocks it was given.                       *)

Sizes == 0 .. MaxReq
Counts == 0 .. MaxCount

\* the usable sizes (MALLOCSIZE) of the system blocks passed to realloc
SysSizes == {2}

\* the pointers a thread may pass to realloc and free
Args(t) == OwnedPtrs(t) \cup {SysPtr, NULL}

\* the next position of thread t and its frame
Enter(t, f, where) ==
    /\ pc' = [pc EXCEPT ![t] = where]
    /\ frame' = [frame EXCEPT ![t] = f]

-----------------------------------------------------------------------------
(* What the caller of create_chunk does with its result p; m is the memory  *)
(* after create_chunk.  to: where the thread goes, f: its frame.            *)

after_create(f, p, m) ==
    IF p = NULL
    THEN \* OOM(): errno = ENOMEM, return NULL
         [to |-> "ret", f |-> Returned(f, NULL, ENOMEM), m |-> m, crash |-> FALSE]
    ELSE IF f.cont = "malloc"
    THEN [to |-> "ret", f |-> Returned(f, p, f.errno), m |-> m, crash |-> FALSE]
    ELSE IF f.cont = "calloc"
    THEN IF f.size <= min_size_bigmaac
         THEN \* its a fry: memset(p, 0, count * size)
              IF Faults(m, p, f.count * f.size)
              THEN [to |-> "cc_finish", f |-> f, m |-> m, crash |-> TRUE]
              ELSE [to |-> "ret", f |-> Returned(f, p, f.errno),
                    m |-> memset(m, p, 0, f.count * f.size), crash |-> FALSE]
         ELSE [to |-> "ret", f |-> Returned(f, p, f.errno), m |-> m, crash |-> FALSE]
    ELSE IF f.cont = "realloc_managed"
    THEN [to |-> "rm_crit", f |-> [f EXCEPT !.p = p, !.chunk = NULL], m |-> m,
          crash |-> FALSE]
    ELSE \* realloc of a system block: memblock_copy from the heap, real_free(ptr)
         [to |-> "ret", f |-> Returned(f, p, f.errno),
          m |-> LET k == IF f.old_size < f.size THEN f.old_size ELSE f.size
                IN  [a \in DOMAIN m |-> IF p <= a /\ a < p + k
                                        THEN Pattern(a - p) ELSE m[a]],
          crash |-> FALSE]

\* what the caller of remove_chunk_with_ptr does with its result r
after_remove(f, r) ==
    IF f.cont = "free" THEN Returned(f, NULL, f.errno)
    ELSE IF r < 0 THEN Returned(f, NULL, ENOMEM)
    ELSE IF r = 0 THEN Returned(f, NULL, f.errno)
    ELSE Returned(f, f.p, f.errno)

-----------------------------------------------------------------------------
(* The shims.  A section between pthread_mutex_lock and pthread_mutex_unlock *)
(* is one step, taken when the mutex is free or when the thread has taken   *)
(* it with Lock; the step ends with the unlock.                              *)

\* a block sits in two slots of a size-heap
Corrupt ==
    \E h \in DOMAIN heaps :
        \E i, j \in DOMAIN heaps[h].node_array :
            i # j /\ heaps[h].node_array[i] = heaps[h].node_array[j]

\* the process is followed until it crashes or a size-heap is corrupt
Running == ~crashed /\ ~Corrupt

\* the snapshot taken at a malloc lives until the call that follows the malloc
SnapAtCall(t, op, ptr) ==
    IF snap.phase = "alloc" /\ snap.t = t /\ op = "free" /\ snap.ptr = ptr /\ ptr # NULL
    THEN snap ELSE NoSnap

\* a call through the pointer real_<fn>: it returns val, or the pointer is
\* NULL and the process dies
real_call(t, f, fn, val) ==
    IF fn \in resolved
    THEN Enter(t, Returned(f, val, 0), "ret") /\ crashed' = crashed
    ELSE crashed' = TRUE /\ UNCHANGED <<pc, frame>>

\* the shim moves on to a position of its own code
Goto(t, f, where) == Enter(t, f, where) /\ crashed' = crashed

\* the shim calls bigmaac_init() before anything else
call_init(t, f) ==
    /\ Enter(t, f, "init_lock")
    /\ UNCHANGED <<cfgvars, arenavars, lock, mem, crashed, owned, snap>>

\* malloc after its call of bigmaac_init
malloc_shim(t, size) ==
    /\ LET f == [NoFrame EXCEPT !.op = "malloc", !.cont = "malloc", !.size = size]
       IN  IF load_state # LOADED \/ size = 0
           THEN real_call(t, f, "malloc", SysPtr)
           ELSE IF use_chunk(size)
           THEN Goto(t, f, "cc_crit")
           ELSE real_call(t, f, "malloc", SysPtr)
    /\ UNCHANGED <<cfgvars, arenavars, lock, mem, owned>>
    /\ snap' = SnapAtCall(t, "malloc", NULL)

MallocCall(t, size) ==
    /\ Running
    /\ pc[t] = "idle"
    /\ IF load_state = NOT_LOADED /\ "malloc" \notin resolved
       THEN call_init(t, [NoFrame EXCEPT !.op = "malloc", !.size = size])
       ELSE malloc_shim(t, size)

\* calloc after its call of bigmaac_init
calloc_shim(t, count, size) ==
    /\ LET f == [NoFrame EXCEPT !.op = "calloc", !.cont = "calloc", !.count = count,
                                !.size = size]
       IN  IF load_state # LOADED \/ count = 0 \/ size = 0
           THEN real_call(t, f, "calloc", SysPtr)
           ELSE IF use_chunk(size)
           THEN Goto(t, f, "cc_crit")
           ELSE real_call(t, f, "calloc", SysPtr)
    /\ UNCHANGED <<cfgvars, arenavars, lock, mem, owned>>
    /\ snap' = SnapAtCall(t, "calloc", NULL)

\* the first test of calloc
calloc_window == load_state > NOT_LOADED /\ load_state < LOADED

CallocCall(t, count, size) ==
    /\ Running
    /\ pc[t] = "idle"
    /\ IF calloc_window
       THEN /\ Enter(t, Returned([NoFrame EXCEPT !.op = "calloc", !.count = count,
                                                 !.size = size], NULL, 0), "ret")
            /\ UNCHANGED <<cfgvars, arenavars, lock, mem, crashed, owned>>
            /\ snap' = SnapAtCall(t, "calloc", NULL)
       ELSE IF load_state = NOT_LOADED \/ "malloc" \notin resolved
       THEN call_init(t, [NoFrame EXCEPT !.op = "calloc", !.count = count, !.size = size])
       ELSE calloc_shim(t, count, size)

\* realloc after its call of bigmaac_init
realloc_shim(t, ptr, size) ==
    /\ owned' = [owned EXCEPT ![t] = @ (-) SetToBag({ptr})]
    /\ LET f == [NoFrame EXCEPT !.op = "realloc", !.size = size, !.ptr = ptr,
                                !.was = IF Managed(ptr)
                                        THEN [i \in 1 .. BlockSize(ptr) |-> mem[ptr + i - 1]]
                                        ELSE <<>>]
       IN  IF load_state # LOADED
           THEN real_call(t, f, "realloc", SysPtr)
           ELSE IF ptr = NULL \/ size = 0
           THEN \* return malloc(size)
                IF size # 0 /\ use_chunk(size)
                THEN Goto(t, [f EXCEPT !.cont = "malloc"], "cc_crit")
                ELSE real_call(t, f, "malloc", SysPtr)
           ELSE IF Managed(ptr)
           THEN Goto(t, [f EXCEPT !.cont = "realloc_managed"], "r_find")
           ELSE IF use_chunk(size)
           THEN \E k \in SysSizes :
                    Goto(t, [f EXCEPT !.cont = "realloc_sys", !.old_size = k], "cc_crit")
           ELSE real_call(t, f, "realloc", SysPtr)
    /\ UNCHANGED <<cfgvars, arenavars, lock, mem>>
    /\ snap' = SnapAtCall(t, "realloc", ptr)

ReallocCall(t, ptr, size) ==
    /\ Running
    /\ pc[t] = "idle"
    /\ ptr \in Args(t)
    /\ IF load_state = NOT_LOADED /\ "malloc" \notin resolved
       THEN call_init(t, [NoFrame EXCEPT !.op = "realloc", !.size = size, !.ptr = ptr])
       ELSE realloc_shim(t, ptr, size)

\* free after its call of bigmaac_init
free_shim(t, ptr) ==
    /\ owned' = [owned EXCEPT ![t] = @ (-) SetToBag({ptr})]
    /\ LET f == [NoFrame EXCEPT !.op = "free", !.cont = "free", !.ptr = ptr]
       IN  IF load_state # LOADED \/ ptr < base_fries \/ ptr >= end_bigmaac
           THEN real_call(t, f, "free", NULL)
           ELSE Goto(t, f, "rm_crit")
    /\ UNCHANGED <<cfgvars, arenavars, lock, mem>>
    /\ snap' = SnapAtCall(t, "free", ptr)

FreeCall(t, ptr) ==
    /\ Running
    /\ pc[t] = "idle"
    /\ ptr \in Args(t)
    /\ IF load_state = NOT_LOADED /\ "malloc" \notin resolved
       THEN call_init(t, [NoFrame EXCEPT !.op = "free", !.ptr = ptr])
       ELSE free_shim(t, ptr)

\* pthread_mutex_lock as a step of its own: thread t is about to enter a
\* section and the mutex is free
Lock(t) ==
    /\ Running
    /\ pc[t] \in {"cc_crit", "r_find", "rm_crit"}
    /\ lock = 0
    /\ lock' = t
    /\ UNCHANGED <<cfgvars, arenavars, mem, crashed, pc, frame, owned, snap>>

\* create_chunk from the lock to the unlock; node_ok: real_malloc of a node succeeds
CC_Crit(t, node_ok) ==
    /\ Running
    /\ pc[t] = "cc_crit"
    /\ lock \in {0, t}
    /\ LET f == frame[t]
           head == IF is_bigmaac(f.size) THEN _head_bigmaacs ELSE _head_fries
           size == SIZE_TO_MULTIPLE(f.size, multiple_of(head))
           res == heap_pop_split([n |-> nodes, h |-> heaps[head]], size, node_ok)
           out == IF res.chunk = NULL
                  THEN after_create(f, NULL, mem)
                  ELSE [to |-> "cc_finish",
                        f |-> [f EXCEPT !.head = head, !.csize = size, !.chunk = res.chunk],
                        m |-> mem, crash |-> FALSE]
           c == Canon(res.st.n, [heaps EXCEPT ![head] = res.st.h],
                      [frame EXCEPT ![t] = out.f])
       IN  /\ res.chunk = NULL => Leaked + size <= MaxLeak
           /\ used_bigmaacs' = IF head = _head_bigmaacs
                               THEN SizeT(used_bigmaacs + size) ELSE used_bigmaacs
           /\ used_fries' = IF head = _head_bigmaacs
                            THEN used_fries ELSE SizeT(used_fries + size)
           /\ nodes' = c.nodes
           /\ heaps' = c.heaps
           /\ frame' = c.frame
           /\ pc' = [pc EXCEPT ![t] = out.to]
           /\ snap' = IF res.chunk # NULL /\ f.op = "malloc"
                      THEN [phase |-> "alloc", t |-> t, ptr |-> NULL, view |-> ArenaView]
                      ELSE NoSnap
    /\ UNCHANGED <<cfgvars, active_mmaps, mem, crashed, owned>>
    /\ lock' = 0

\* create_chunk after the unlock: the attach of a bigmaac, then the caller's code;
\* attach_ok: mmap_tmpfile returns 0
CC_Finish(t, attach_ok) ==
    /\ Running
    /\ pc[t] = "cc_finish"
    /\ LET f == frame[t]
           ptr == nodes[f.chunk].ptr
           big == f.head = _head_bigmaacs
           m == IF big /\ attach_ok THEN mmap_tmpfile(mem, ptr, f.csize) ELSE mem
           out == after_create(f, IF big /\ ~attach_ok THEN NULL ELSE ptr, m)
       IN  /\ active_mmaps' = IF big /\ attach_ok THEN active_mmaps + 1 ELSE active_mmaps
           /\ Enter(t, out.f, out.to)
           /\ mem' = out.m
           /\ crashed' = out.crash
           /\ snap' = IF snap.phase = "alloc" /\ snap.t = t
                      THEN IF big /\ ~attach_ok THEN NoSnap ELSE [snap EXCEPT !.ptr = ptr]
                      ELSE IF big /\ attach_ok THEN NoSnap ELSE snap
    /\ UNCHANGED <<cfgvars, nodes, heaps, used_fries, used_bigmaacs, lock, owned>>

\* realloc of a managed pointer: heap_find_node under the lock
R_Find(t) ==
    /\ Running
    /\ pc[t] = "r_find"
    /\ lock \in {0, t}
    /\ LET f == frame[t]
           n == heap_find_node(nodes, f.ptr)
       IN  IF n = NULL
           THEN Enter(t, Returned(f, NULL, f.errno), "ret")
           ELSE Enter(t, [f EXCEPT !.n = n], "r_size")
    /\ UNCHANGED <<cfgvars, arenavars, mem, crashed, owned, snap>>
    /\ lock' = 0

\* realloc after the unlock: n->size >= size, else a new block
R_Size(t) ==
    /\ Running
    /\ pc[t] = "r_size"
    /\ LET f == frame[t]
       IN  IF big_enough(nodes[f.n].size, f.size)
           THEN Enter(t, Returned(f, f.ptr, f.errno), "ret")
           ELSE IF use_chunk(f.size)
           THEN Enter(t, [f EXCEPT !.n = NULL], "cc_crit")
           ELSE Enter(t, [f EXCEPT !.n = NULL, !.p = SysPtr], "rm_crit")
    /\ UNCHANGED <<cfgvars, arenavars, lock, mem, crashed, owned, snap>>

\* remove_chunk_with_ptr(ptr, new_ptr, new_size) from the lock to the unlock;
\* detach_ok: the mmap to PROT_NONE succeeds
RM_Crit(t, detach_ok) ==
    /\ Running
    /\ pc[t] = "rm_crit"
    /\ lock \in {0, t}
    /\ LET f == frame[t]
           n == heap_find_node(nodes, f.ptr)
           head == head_of(f.ptr)
           big == head = _head_bigmaacs
       IN  IF n = NULL
           THEN /\ Enter(t, after_remove(f, 0), "ret")
                /\ snap' = NoSnap
                /\ UNCHANGED <<arenavars, mem, crashed>>
           ELSE LET m1 == IF f.p # NULL /\ Managed(f.p)
                          THEN memblock_copy(mem, nodes[n].ptr, f.p, nodes[n].size, f.size)
                          ELSE mem
                    res == heap_free_node([n |-> nodes, h |-> heaps[head]], n)
                    c == Canon(res.st.n, [heaps EXCEPT ![head] = res.st.h],
                               [frame EXCEPT ![t] = after_remove(f, IF res.r < 0 THEN res.r
                                                                    ELSE 1)])
                IN  IF big /\ ~detach_ok
                    THEN /\ Enter(t, after_remove(f, 0), "ret")
                         /\ mem' = m1
                         /\ snap' = NoSnap
                         /\ UNCHANGED <<arenavars, crashed>>
                    ELSE IF res.crash
                    THEN /\ crashed' = TRUE
                         /\ mem' = m1
                         /\ snap' = NoSnap
                         /\ UNCHANGED <<arenavars, pc, frame>>
                    ELSE /\ mem' = IF big THEN mmap_none(m1, nodes[n].ptr, nodes[n].size)
                                   ELSE m1
                         /\ active_mmaps' = IF big THEN active_mmaps - 1 ELSE active_mmaps
                         /\ used_bigmaacs' = IF big THEN SizeT(used_bigmaacs - nodes[n].size)
                                             ELSE used_bigmaacs
                         /\ used_fries' = IF big THEN used_fries
                                          ELSE SizeT(used_fries - nodes[n].size)
                         /\ nodes' = c.nodes
                         /\ heaps' = c.heaps
                         /\ frame' = c.frame
                         /\ pc' = [pc EXCEPT ![t] = "ret"]
                         /\ crashed' = crashed
                         /\ snap' = IF /\ snap.phase = "alloc"
                                       /\ snap.t = t
                                       /\ snap.ptr = f.ptr
                                       /\ f.op = "free"
                                    THEN [snap EXCEPT !.phase = "freed"]
                                    ELSE NoSnap
    /\ UNCHANGED <<cfgvars, owned>>
    /\ lock' = 0

\* the shim has returned: the caller records what it now holds and writes
\* into the whole block it was given (the MAIN driver writes right after each
\* call; a realloc that returned its argument leaves the bytes as they are)
Return(t) ==
    /\ Running
    /\ pc[t] = "ret"
    /\ LET f == frame[t]
           got == IF f.op \in {"malloc", "calloc", "realloc"} /\ Managed(f.val)
                  THEN SetToBag({f.val}) ELSE EmptyBag
           kept == IF f.op = "realloc" /\ f.val = NULL /\ Managed(f.ptr) /\ ~f.foreign
                   THEN SetToBag({f.ptr}) ELSE EmptyBag
           len == IF got = EmptyBag \/ f.val = f.ptr THEN 0 ELSE BlockSize(f.val)
       IN  /\ owned' = [owned EXCEPT ![t] = @ (+) got (+) kept]
           /\ crashed' = Faults(mem, f.val, len)
           /\ mem' = IF Faults(mem, f.val, len) THEN mem
                     ELSE [a \in DOMAIN mem |-> IF f.val <= a /\ a < f.val + len
                                                THEN Pattern(a - f.val) ELSE mem[a]]
    /\ pc' = [pc EXCEPT ![t] = "idle"]
    /\ frame' = [frame EXCEPT ![t] = NoFrame]
    /\ snap' = IF snap.phase = "freed" THEN NoSnap ELSE snap
    /\ UNCHANGED <<cfgvars, arenavars, lock>>

\* the steps of the threads T; F holds the outcomes of the system calls
\* (TRUE: the call succeeds)
Steps(T, F) ==
    \E t \in T :
        \/ \E size \in Sizes : MallocCall(t, size)
        \/ \E count \in Counts, size \in Sizes : CallocCall(t, count, size)
        \/ \E ptr \in Args(t), size \in Sizes : ReallocCall(t, ptr, size)
        \/ \E ptr \in Args(t) : FreeCall(t, ptr)
        \/ \E node_ok \in F : CC_Crit(t, node_ok)
        \/ \E attach_ok \in F : CC_Finish(t, attach_ok)
        \/ R_Find(t)
        \/ R_Size(t)
        \/ \E detach_ok \in F : RM_Crit(t, detach_ok)
        \/ Return(t)

\* one thread, every system call succeeds
Next == Steps({1}, {TRUE})

Spec == Init /\ [][Next]_vars

-----------------------------------------------------------------------------
(* Concurrent callers: the threads of Threads call malloc, realloc and free *)
(* with the sizes of SizesMT, each on the pointers it holds.                *)

SizesMT == {2, 3, 4}

NextMT ==
    \E t \in Threads :
        \/ \E size \in SizesMT : MallocCall(t, size)
        \/ \E ptr \in OwnedPtrs(t), size \in SizesMT : ReallocCall(t, ptr, size)
        \/ \E ptr \in OwnedPtrs(t) : FreeCall(t, ptr)
        \/ CC_Crit(t, TRUE)
        \/ CC_Finish(t, TRUE)
        \/ R_Find(t)
        \/ R_Size(t)
        \/ RM_Crit(t, TRUE)
        \/ Return(t)

SpecMT == Init /\ [][NextMT]_vars

-----------------------------------------------------------------------------
(* The pointers the callers hold *)

\* what thread t holds besides owned[t]: the pointer of a realloc or free that
\* has not released it yet, the new block of a realloc, the pointer a shim has
\* just returned
InFlight(t) ==
    LET f == frame[t]
        old == IF \/ f.op = "realloc" /\ pc[t] \in {"r_find", "r_size", "cc_crit",
                                                    "cc_finish", "rm_crit"}
                  \/ f.op = "free" /\ pc[t] = "rm_crit"
                  \/ f.op = "realloc" /\ pc[t] = "ret" /\ f.val = NULL
               THEN {f.ptr} ELSE {}
        new == IF pc[t] = "rm_crit" THEN {f.p}
               ELSE IF pc[t] = "ret" /\ f.op \in {"malloc", "calloc", "realloc"}
               THEN {f.val} ELSE {}
    IN  SetToBag({p \in old : Managed(p) /\ ~f.foreign})
        (+) SetToBag({p \in new : Managed(p)})

RECURSIVE LiveOf(_)
LiveOf(T) ==
    IF T = {} THEN EmptyBag
    ELSE LET t == CHOOSE x \in T : TRUE
         IN  owned[t] (+) InFlight(t) (+) LiveOf(T \ {t})

\* the bag of the live managed allocations
Live == LiveOf(Threads)

\* ptr is the start of a block that is IN_USE
StartsInUse(ptr) ==
    LET n == heap_find_node(nodes, ptr)
    IN  n # NULL /\ nodes[n].in_use = IN_USE

\* C1: under any interleaving of malloc, realloc and free by concurrent
\* threads, every pointer a successful managed malloc or realloc returned is
\* held once, is the start of an IN_USE block at least as large as the
\* request, and the byte ranges of the live allocations are pairwise disjoint.
C1_LiveBlocks ==
    /\ \A p \in BagToSet(Live) : CopiesIn(p, Live) = 1 /\ StartsInUse(p)
    /\ \A p, q \in BagToSet(Live) :
           p # q => (p + BlockSize(p) <= q \/ q + BlockSize(q) <= p)
    /\ \A t \in Threads :
           (/\ pc[t] = "ret"
            /\ frame[t].op \in {"malloc", "realloc"}
            /\ Managed(frame[t].val))
           => BlockSize(frame[t].val) >= frame[t].size

\* a realloc of thread 1 returns a new block while thread 2, holding a block,
\* is inside a call
C1_Witness ==
    /\ pc[1] = "ret"
    /\ frame[1].op = "realloc"
    /\ Managed(frame[1].val)
    /\ frame[1].val # frame[1].ptr
    /\ owned[2] # EmptyBag
    /\ pc[2] \in {"cc_finish", "rm_crit", "r_size"}

-----------------------------------------------------------------------------
(* What a call leaves alone *)

FriesView ==
    [blocks |-> Blocks(_head_fries), heap |-> HeapSet(_head_fries), used |-> used_fries,
     bytes |-> [a \in base_fries .. (end_fries - 1) |-> mem[a]]]

BigmaacsView ==
    [blocks |-> Blocks(_head_bigmaacs), heap |-> HeapSet(_head_bigmaacs),
     used |-> used_bigmaacs, attached |-> Attached, active_mmaps |-> active_mmaps]

\* thread t takes a step inside the shim op
StepOf(t, op) == frame'[t].op = op /\ pc'[t] # pc[t]

\* the block at ptr is IN_USE, of this size, inside [lo, hi)
Carved(ptr, size, lo, hi) ==
    /\ lo <= ptr
    /\ ptr + size <= hi
    /\ StartsInUse(ptr)
    /\ BlockSize(ptr) = size

\* what malloc(size) has returned in val
RoutedBySize(size, val) ==
    /\ size <= min_size_fry => val = SysPtr
    /\ (min_size_fry < size /\ size <= min_size_bigmaac /\ val # NULL)
       => Carved(val, SIZE_TO_MULTIPLE(size, fry_size_multiple), base_fries, end_fries)
    /\ (size > min_size_bigmaac /\ val # NULL)
       => /\ Carved(val, SIZE_TO_MULTIPLE(size, page_size), base_bigmaac, end_bigmaac)
          /\ ~Faults(mem, val, SIZE_TO_MULTIPLE(size, page_size))

\* C2: malloc(size) routes by size alone.  size <= MIN_FRY goes to the system
\* allocator and changes neither arena; MIN_FRY < size <= MIN_BIGMAAC is an
\* IN_USE block of the fry arena of the size rounded to the fry grain, and no
\* step of the call touches the bigmaac arena or a mapping; size > MIN_BIGMAAC
\* is an attached IN_USE block of the bigmaac arena of the size rounded to the
\* page size, and no step of the call touches the fry arena.
C2_Routing ==
    /\ [](\A t \in Threads :
              (pc[t] = "ret" /\ frame[t].op = "malloc")
              => RoutedBySize(frame[t].size, frame[t].val))
    /\ [][\A t \in Threads :
              StepOf(t, "malloc") =>
                  /\ frame'[t].size <= min_size_fry => UNCHANGED <<arenavars, mem>>
                  /\ frame'[t].size <= min_size_bigmaac => UNCHANGED BigmaacsView
                  /\ frame'[t].size > min_size_bigmaac => UNCHANGED FriesView]_vars

\* malloc(MIN_BIGMAAC + 1) has returned a block of the bigmaac arena while a
\* fry is held
C2_Witness ==
    /\ pc[1] = "ret"
    /\ frame[1].op = "malloc"
    /\ frame[1].size = min_size_bigmaac + 1
    /\ frame[1].val >= base_bigmaac
    /\ \E p \in OwnedPtrs(1) : p < end_fries

-----------------------------------------------------------------------------
\* the bytes [p, p + len) all read c
ReadsAs(m, p, len, c) == \A a \in p .. (p + len - 1) : a \in DOMAIN m /\ m[a] = c

\* C3: a calloc(count, size) with count >= 1 and size >= 1 that succeeds from a
\* managed arena returns the start of a block of at least count * size bytes
\* that all read zero, and its zeroing writes inside that block only: it
\* changes no byte outside it and does not fault.
C3_CallocZeroed ==
    /\ [](\A t \in Threads :
              (/\ pc[t] = "ret"
               /\ frame[t].op = "calloc"
               /\ frame[t].count >= 1
               /\ frame[t].size >= 1
               /\ Managed(frame[t].val))
              => /\ StartsInUse(frame[t].val)
                 /\ BlockSize(frame[t].val) >= frame[t].count * frame[t].size
                 /\ ReadsAs(mem, frame[t].val, frame[t].count * frame[t].size, 0))
    /\ [][\A t \in Threads :
              (frame[t].op = "calloc" /\ pc[t] = "cc_finish")
              => /\ ~crashed'
                 /\ \A a \in Addrs :
                        mem'[a] # mem[a]
                        => LET p == nodes[frame[t].chunk].ptr
                           IN  p <= a /\ a < p + frame[t].csize]_vars

-----------------------------------------------------------------------------
\* the arena a request of this size is served from, and its size there
HeadFor(size) == IF is_bigmaac(size) THEN _head_bigmaacs ELSE _head_fries
RoundedFor(size) == SIZE_TO_MULTIPLE(size, multiple_of(HeadFor(size)))

\* thread t is about to run create_chunk for a malloc whose arena has free
\* blocks, the largest of them smaller than the rounded request
TooLarge(t) ==
    /\ pc[t] = "cc_crit"
    /\ frame[t].op = "malloc"
    /\ heaps[HeadFor(frame[t].size)].used > 0
    /\ nodes[heaps[HeadFor(frame[t].size)].node_array[0]].size < RoundedFor(frame[t].size)

\* C4: a managed malloc that fails because the largest free block of its
\* arena is smaller than the rounded request returns NULL with errno = ENOMEM
\* and leaves the arena as it was: the same blocks, the same heap contents,
\* the same used counter.
C4_OomLeavesArena ==
    [][\A t \in Threads :
           (TooLarge(t) /\ pc'[t] # pc[t])
           => /\ pc'[t] = "ret"
              /\ frame'[t].val = NULL
              /\ frame'[t].errno = ENOMEM
              /\ UNCHANGED <<FriesView, BigmaacsView>>]_vars

-----------------------------------------------------------------------------
(* Misuse: free of a managed address that is no live allocation *)

\* free(ptr) by thread t of an address of the managed range that nobody holds:
\* a pointer freed before, an interior address, an address never returned
FreeForeign(t, ptr) ==
    /\ Running
    /\ pc[t] = "idle"
    /\ Managed(ptr)
    /\ ~BagIn(ptr, Live)
    /\ Enter(t, [NoFrame EXCEPT !.op = "free", !.cont = "free", !.ptr = ptr,
                                !.foreign = TRUE], "rm_crit")
    /\ snap' = NoSnap
    /\ UNCHANGED <<cfgvars, arenavars, lock, mem, crashed, owned>>

\* one thread calls malloc and free, and free also with such addresses
NextMisuse ==
    \/ \E size \in Sizes : MallocCall(1, size)
    \/ \E ptr \in Args(1) : FreeCall(1, ptr)
    \/ \E ptr \in Addrs : FreeForeign(1, ptr)
    \/ CC_Crit(1, TRUE)
    \/ CC_Finish(1, TRUE)
    \/ RM_Crit(1, TRUE)
    \/ Return(1)

SpecMisuse == Init /\ [][NextMisuse]_vars

\* C5: free(p) of a managed p that is not the start of a live allocation (a
\* pointer freed before, the start of a FREE block, an interior or
\* never-returned address) changes nothing: the block lists, the size-heaps,
\* the used counters and the mappings of both arenas stay as they are.
C5_ForeignFreeIsNoOp ==
    [][\A t \in Threads :
           (frame[t].op = "free" /\ frame[t].foreign /\ pc[t] = "rm_crit" /\ pc'[t] # pc[t])
           => UNCHANGED <<FriesView, BigmaacsView, heaps>>]_vars

-----------------------------------------------------------------------------
\* the request of thread t's realloc fits the block its pointer had at the call
FitsOld(f) == f.op = "realloc" /\ f.size >= 1 /\ f.size <= Len(f.was)

\* the bytes [p, p + Len(bytes)) of memory are these bytes
HoldsBytes(m, p, bytes) == \A i \in 1 .. Len(bytes) : m[p + i - 1] = bytes[i]

\* C6: realloc(p, size) of a live managed p whose block has B bytes, with
\* 1 <= size <= B, returns p and changes nothing: no step of the call changes
\* a block, a heap, a used counter, a mapping or a byte, and p's block is
\* IN_USE with its B bytes when the call returns.
C6_ReallocInPlace ==
    /\ [](\A t \in Threads :
              (pc[t] = "ret" /\ FitsOld(frame[t]))
              => /\ frame[t].val = frame[t].ptr
                 /\ StartsInUse(frame[t].ptr)
                 /\ BlockSize(frame[t].ptr) = Len(frame[t].was)
                 /\ HoldsBytes(mem, frame[t].ptr, frame[t].was))
    /\ [][\A t \in Threads :
              (StepOf(t, "realloc") /\ FitsOld(frame'[t]))
              => UNCHANGED <<arenavars, mem>>]_vars

\* a realloc to fewer bytes than the block has returned, another block held
C6_Witness ==
    /\ pc[1] = "ret"
    /\ FitsOld(frame[1])
    /\ frame[1].size < Len(frame[1].was)
    /\ frame[1].val = frame[1].ptr
    /\ owned[1] # EmptyBag

-----------------------------------------------------------------------------
\* the request of thread t's realloc exceeds the block its pointer had at the call
Grows(f) == f.op = "realloc" /\ Len(f.was) >= 1 /\ f.size > Len(f.was)

\* the positions in Blocks(head) of the blocks that cover the address a
Covering(head, a) ==
    {i \in DOMAIN Blocks(head) :
         Blocks(head)[i].ptr <= a /\ a < Blocks(head)[i].ptr + Blocks(head)[i].size}

\* the address a lies in one block, which is FREE, has no FREE neighbour, sits
\* in the size-heap once and, in the bigmaac arena, is detached
FreedAndCoalesced(a) ==
    LET head == head_of(a)
        bs == Blocks(head)
    IN  /\ Cardinality(Covering(head, a)) = 1
        /\ \A i \in Covering(head, a) :
               /\ bs[i].in_use = FREE
               /\ i > 1 => bs[i - 1].in_use = IN_USE
               /\ i < Len(bs) => bs[i + 1].in_use = IN_USE
               /\ Cardinality({k \in DOMAIN heaps[head].node_array :
                                   nodes[heaps[head].node_array[k]].ptr = bs[i].ptr}) = 1
               /\ head = _head_bigmaacs
                  => \A b \in bs[i].ptr .. (bs[i].ptr + bs[i].size - 1) : mem[b] = NoAccess

\* what a growing realloc has returned
GrownOrIntact(f) ==
    IF f.val # NULL
    THEN /\ RoutedBySize(f.size, f.val)
         /\ f.val # f.ptr
         /\ HoldsBytes(mem, f.val, f.was)
         /\ FreedAndCoalesced(f.ptr)
    ELSE /\ f.errno = ENOMEM
         /\ StartsInUse(f.ptr)
         /\ BlockSize(f.ptr) = Len(f.was)
         /\ HoldsBytes(mem, f.ptr, f.was)

\* C7: realloc(p, size) of a live managed p whose block has B < size bytes
\* either gets a new block and then returns it: a pointer q classified by
\* size, whose first B bytes are the bytes that were at p, p's old block being
\* FREE, in the heap once and merged with its free neighbours; or, the new
\* allocation failing, returns NULL with p's block IN_USE and its bytes as
\* they were.
C7_ReallocGrows ==
    /\ [](\A t \in Threads :
              (pc[t] = "ret" /\ Grows(frame[t])) => GrownOrIntact(frame[t]))
    /\ [][\A t \in Threads :
              (Grows(frame[t]) /\ pc[t] = "rm_crit" /\ frame[t].p # NULL)
              => pc'[t] = "ret" /\ ~crashed']_vars

\* the first half of C7_ReallocGrows alone: what holds whenever the call returns
C7_WhenItReturns ==
    \A t \in Threads : (pc[t] = "ret" /\ Grows(frame[t])) => GrownOrIntact(frame[t])

-----------------------------------------------------------------------------
\* thread t's realloc is realloc(p, 0) of a live managed p
Releases(f) == f.op = "realloc" /\ f.size = 0 /\ Len(f.was) >= 1

\* C8: realloc(p, 0) of a live managed p releases p: when the call returns,
\* whatever it returns, p's block is FREE in its arena (merged, in the heap,
\* detached if a bigmaac), and the call has reduced the arena's used counter
\* by the size of the block.
C8_ReallocZeroReleases ==
    /\ [](\A t \in Threads :
              (pc[t] = "ret" /\ Releases(frame[t])) => FreedAndCoalesced(frame[t].ptr))
    /\ [][\A t \in Threads :
              (pc[t] = "idle" /\ pc'[t] = "ret" /\ Releases(frame'[t]))
              => IF head_of(frame'[t].ptr) = _head_bigmaacs
                 THEN used_bigmaacs' = SizeT(used_bigmaacs - Len(frame'[t].was))
                 ELSE used_fries' = SizeT(used_fries - Len(frame'[t].was))]_vars

-----------------------------------------------------------------------------
\* C9: round trip.  When a malloc of a managed size has succeeded and the next
\* call frees its result, the arena is as it was before the malloc: the same
\* blocks in address order (start, size, state), the same set of blocks in
\* each size-heap, the same used counters, the same mapped addresses.
C9_RoundTrip == snap.phase = "freed" => ArenaView = snap.view

\* a bigmaac has gone the round trip while other blocks were held
C9_Witness ==
    /\ snap.phase = "freed"
    /\ snap.ptr >= base_bigmaac
    /\ \E p, q \in OwnedPtrs(1) : p < end_fries /\ q >= base_bigmaac

-----------------------------------------------------------------------------
\* no call is running, the callers hold no pointer and no block is IN_USE
AllFreed ==
    /\ \A t \in Threads : pc[t] = "idle" /\ owned[t] = EmptyBag
    /\ \A i \in DOMAIN Blocks(_head_fries) : Blocks(_head_fries)[i].in_use = FREE
    /\ \A i \in DOMAIN Blocks(_head_bigmaacs) : Blocks(_head_bigmaacs)[i].in_use = FREE

\* the arena of head is one FREE block [base, base + size), alone in the heap
OneFreeBlock(head, base, size) ==
    /\ Blocks(head) = <<[ptr |-> base, size |-> size, in_use |-> FREE]>>
    /\ heaps[head].used = 1
    /\ HeapSet(head) = {[ptr |-> base, size |-> size]}

\* C10: after any sequence of malloc, free and realloc calls, failed ones
\* included, at the end of which every pointer returned has been freed, each
\* arena is one FREE block that covers its range, its size-heap holds that
\* block alone, and its used counter is 0.
C10_AllFreedIsFresh ==
    AllFreed
    => /\ OneFreeBlock(_head_fries, base_fries, size_fries)
       /\ OneFreeBlock(_head_bigmaacs, base_bigmaac, size_bigmaac)
       /\ used_fries = 0
       /\ used_bigmaacs = 0

-----------------------------------------------------------------------------
(* A fry arena of 14 grains that the caller has filled with eleven blocks,  *)
(* enough for six FREE blocks kept apart by blocks IN_USE.  One thread      *)
(* frees them in any order.                                                 *)

\* the sizes of the eleven malloc calls that filled the arena
FilledSizes == <<2, 2, 4, 2, 2, 2, 4, 2, 2, 2, 4>>

\* heap_pop_split for each size in turn
RECURSIVE carve_all(_, _)
carve_all(st, sizes) ==
    IF sizes = <<>> THEN st
    ELSE carve_all(heap_pop_split(st, Head(sizes), TRUE).st, Tail(sizes))

\* the start of the k-th block of FilledSizes, relative to the arena base
RECURSIVE OffsetOf(_)
OffsetOf(k) == IF k = 1 THEN 0 ELSE OffsetOf(k - 1) + FilledSizes[k - 1]

\* bigmaac_init has succeeded with MIN_FRY 1, MIN_BIGMAAC 4, a grain of 2, a
\* page of 4, 28 bytes of fries and 4 of bigmaac, and thread 1 has called
\* malloc with FilledSizes and written each block
InitFrag ==
    /\ load_state = LOADED
    /\ resolved = RealFuncs
    /\ lock = 0
    /\ min_size_fry = 1
    /\ min_size_bigmaac = 4
    /\ fry_size_multiple = 2
    /\ page_size = 4
    /\ size_fries = 28
    /\ size_bigmaac = 4
    /\ base_fries = 8
    /\ end_fries = 36
    /\ base_bigmaac = 36
    /\ end_bigmaac = 40
    /\ _head_bigmaacs = 1
    /\ _head_fries = 3
    /\ LET fresh == ll_new_nodes(ll_new_nodes([i \in NodeIds |-> NoNode], 1, 36, 4), 3, 8, 28)
           st == carve_all([n |-> fresh, h |-> ll_new_heap(3)], FilledSizes)
           c == Canon(st.n, [h \in {1, 3} |-> IF h = 1 THEN ll_new_heap(1) ELSE st.h],
                      [t \in Threads |-> NoFrame])
       IN  /\ nodes = c.nodes
           /\ heaps = c.heaps
    /\ used_fries = 28
    /\ used_bigmaacs = 0
    /\ active_mmaps = 2
    /\ mem = [a \in 8 .. 39 |->
                 IF a >= 36 THEN NoAccess
                 ELSE LET k == CHOOSE j \in DOMAIN FilledSizes :
                                   8 + OffsetOf(j) <= a /\ a < 8 + OffsetOf(j) + FilledSizes[j]
                      IN  Pattern(a - (8 + OffsetOf(k)))]
    /\ crashed = FALSE
    /\ pc = [t \in Threads |-> "idle"]
    /\ frame = [t \in Threads |-> NoFrame]
    /\ owned = [t \in Threads |->
                   IF t = 1 THEN SetToBag({8 + OffsetOf(k) : k \in DOMAIN FilledSizes})
                   ELSE EmptyBag]
    /\ snap = NoSnap

NextFrag ==
    \/ \E ptr \in OwnedPtrs(1) : FreeCall(1, ptr)
    \/ RM_Crit(1, TRUE)
    \/ Return(1)

SpecFrag == InitFrag /\ [][NextFrag]_vars

-----------------------------------------------------------------------------
(* One thread, malloc and free only, on a fry arena of six grains, so that  *)
(* splits, exact fits and every neighbourhood of a freed block occur with   *)
(* up to three FREE blocks in the heap.                                      *)

InitLean == Loaded(1, 4, 2, 4, 12, 4, 8)

NextLean ==
    \/ \E size \in {2, 4} : MallocCall(1, size)
    \/ CC_Crit(1, TRUE)
    \/ CC_Finish(1, TRUE)
    \/ \E ptr \in OwnedPtrs(1) : FreeCall(1, ptr)
    \/ RM_Crit(1, TRUE)
    \/ Return(1)

SpecLean == InitLean /\ [][NextLean]_vars

-----------------------------------------------------------------------------
(* C11: the blocks of an arena tile it, and the links agree.                *)

\* each block of bs has a positive size and starts where the one before ends
RECURSIVE Tiles(_, _)
Tiles(bs, start) ==
    IF bs = <<>> THEN TRUE
    ELSE /\ Head(bs).ptr = start
         /\ Head(bs).size > 0
         /\ Tiles(Tail(bs), start + Head(bs).size)

RECURSIVE SumSizes(_)
SumSizes(bs) == IF bs = <<>> THEN 0 ELSE Head(bs).size + SumSizes(Tail(bs))

\* the previous link of every record of the list is the record that links to it
LinksAgree(head) ==
    /\ nodes[head].previous = NULL
    /\ \A c \in {order_from(nodes, head)[i] : i \in 1 .. Len(order_from(nodes, head))} :
           nodes[c].next # NULL => nodes[nodes[c].next].previous = c

TiledArena(head, base, size) ==
    /\ Tiles(Blocks(head), base)
    /\ SumSizes(Blocks(head)) = size
    /\ \A i \in 1 .. (Len(Blocks(head)) - 1) : Blocks(head)[i].ptr < Blocks(head)[i + 1].ptr
    /\ LinksAgree(head)

-----------------------------------------------------------------------------
(* C12: FREE blocks are merged as soon as they meet.                         *)

\* no block of the list and its successor are both FREE
NoAdjacentFree(head) ==
    \A i \in 1 .. (Len(Blocks(head)) - 1) :
        ~(Blocks(head)[i].in_use = FREE /\ Blocks(head)[i + 1].in_use = FREE)

\* the part of C12 about states: no arena has two FREE blocks in a row
C12_NoAdjacentFree ==
    NoAdjacentFree(_head_fries) /\ NoAdjacentFree(_head_bigmaacs)

\* C12: in every state reached by malloc and free of live pointers no two
\* consecutive blocks of an arena are both FREE, and a free of a live pointer
\* completes with the block merged, in that same operation, with its FREE
\* predecessor and its FREE successor, whichever of the two are FREE.
C12_EagerCoalescing ==
    /\ []C12_NoAdjacentFree
    /\ [][\A t \in Threads :
              (pc[t] = "rm_crit" /\ frame[t].op = "free" /\ StartsInUse(frame[t].ptr))
              => /\ pc'[t] = "ret"
                 /\ ~crashed'
                 /\ FreedAndCoalesced(frame[t].ptr)']_vars

-----------------------------------------------------------------------------
(* C13: the size-heap of an arena holds exactly its FREE blocks.             *)

\* the records of the list of head, the sentinel left out
ListNodes(head) ==
    {order_from(nodes, nodes[head].next)[i] :
         i \in 1 .. Len(order_from(nodes, nodes[head].next))}

\* the slots in use of the heap of head
Slots(head) == 0 .. (heaps[head].used - 1)

RECURSIVE SumHeap(_, _)
SumHeap(head, used) ==
    IF used = 0 THEN 0
    ELSE nodes[heaps[head].node_array[used - 1]].size + SumHeap(head, used - 1)

RECURSIVE SumFree(_)
SumFree(bs) ==
    IF bs = <<>> THEN 0
    ELSE (IF Head(bs).in_use = FREE THEN Head(bs).size ELSE 0) + SumFree(Tail(bs))

HeapMatchesList(head) ==
    LET na == heaps[head].node_array
    IN  /\ \A c \in ListNodes(head) :
               nodes[c].in_use = FREE <=> \E i \in Slots(head) : na[i] = c
        /\ \A i \in Slots(head) : na[i] \in ListNodes(head)
        /\ \A i, j \in Slots(head) : na[i] = na[j] => i = j
        /\ \A i \in Slots(head) : nodes[na[i]].heap_idx = i
        /\ SumHeap(head, heaps[head].used) = SumFree(Blocks(head))

-----------------------------------------------------------------------------
(* C14: the heap is a max-heap on block size.                                *)

\* no block of the heap of head is larger than the block in its parent slot
MaxHeap(head) ==
    \A i \in 1 .. (heaps[head].used - 1) :
        nodes[heaps[head].node_array[(i - 1) \div 2]].size
            >= nodes[heaps[head].node_array[i]].size

\* C14: after every allocate and every free, the removal of a predecessor
\* from any slot of the heap included, heap[(i-1)/2].size >= heap[i].size for
\* every slot i >= 1 in use, in both arenas.
C14_MaxHeap ==
    ~crashed => MaxHeap(_head_fries) /\ MaxHeap(_head_bigmaacs)

-----------------------------------------------------------------------------
(* C15: the used counters follow the blocks IN_USE.                          *)

\* C15: whenever no thread holds the mutex, after any sequence of calls that
\* succeed or fail, used_fries and used_bigmaacs each equal the sum of the
\* sizes of the IN_USE blocks of their list.
C15_UsedAccounting ==
    (lock = 0 /\ ~crashed)
    => /\ used_fries = SumInUse(Blocks(_head_fries))
       /\ used_bigmaacs = SumInUse(Blocks(_head_bigmaacs))

-----------------------------------------------------------------------------
(* C16: the mutex.  Two threads call malloc, realloc and free; taking the   *)
(* mutex is a step of its own, so that lock names the thread inside a        *)
(* section.                                                                  *)

CC_Held(t) == lock = t /\ CC_Crit(t, TRUE)

R_Held(t) == lock = t /\ R_Find(t)

RM_Held(t) == lock = t /\ RM_Crit(t, TRUE)

NextLock ==
    \E t \in Threads :
        \/ \E size \in {2, 4} : MallocCall(t, size)
        \/ \E ptr \in OwnedPtrs(t) : ReallocCall(t, ptr, 4)
        \/ \E ptr \in OwnedPtrs(t) : FreeCall(t, ptr)
        \/ Lock(t)
        \/ CC_Held(t)
        \/ CC_Finish(t, TRUE)
        \/ R_Held(t)
        \/ R_Size(t)
        \/ RM_Held(t)
        \/ Return(t)

SpecLock == Init /\ [][NextLock]_vars

\* the step is thread t's and changes a list, a heap, a counter or a mapping
WritesArena(t) ==
    /\ pc'[t] # pc[t] \/ crashed' # crashed
    /\ arenavars' # arenavars \/ Attached' # Attached

\* the step is thread t's and reads a field of a list node: n->size in
\* realloc, heap_chunk->ptr in create_chunk
ReadsArena(t) ==
    /\ pc'[t] # pc[t]
    /\ pc[t] \in {"r_find", "r_size", "cc_crit", "cc_finish", "rm_crit"}

\* C16: every step of a thread that reads or writes the lists, the heaps or
\* the used counters, and every attach and detach of a bigmaac block, is
\* taken while that thread holds the mutex.
C16_UnderMutex ==
    [][\A t \in Threads : (WritesArena(t) \/ ReadsArena(t)) => lock = t]_vars

\* the writes alone: lists, heaps, used counters, mappings and active_mmaps
C16_WritesUnderMutex ==
    [][\A t \in Threads : WritesArena(t) => lock = t]_vars

\* the lists, the heaps and the used counters alone
C16_ListsUnderMutex ==
    [][\A t \in Threads :
           (/\ pc'[t] # pc[t] \/ crashed' # crashed
            /\ <<nodes, heaps, used_fries, used_bigmaacs>>'
                   # <<nodes, heaps, used_fries, used_bigmaacs>>)
           => lock = t]_vars

-----------------------------------------------------------------------------
(* Initialisation.  The process starts with load_state NOT_LOADED and the   *)
(* real_* pointers NULL; the first shim calls of two threads run             *)
(* bigmaac_init.  Inputs: what dlsym resolves, MIN_FRY and MIN_BIGMAAC from  *)
(* the environment, and whether the reservation and the fry attach succeed.  *)

\* what the four dlsym calls leave in the real_* pointers
DlsymOutcomes == {RealFuncs, RealFuncs \ {"calloc"}, {}}

\* BIGMAAC_MIN_FRY_SIZE and BIGMAAC_MIN_BIGMAAC_SIZE as sscanf reads them
EnvSettings == {[fry |-> 1, bigmaac |-> 3], [fry |-> 0, bigmaac |-> 3],
                [fry |-> 4, bigmaac |-> 3]}

\* the address mmap gives to the reservation
ReservedBase == 8

InitCold ==
    /\ load_state = NOT_LOADED
    /\ resolved = {}
    /\ lock = 0
    /\ min_size_fry = 1
    /\ min_size_bigmaac = 3
    /\ fry_size_multiple = 2
    /\ page_size = 0
    /\ size_fries = 4
    /\ size_bigmaac = 8
    /\ base_fries = NULL
    /\ end_fries = NULL
    /\ base_bigmaac = NULL
    /\ end_bigmaac = NULL
    /\ _head_bigmaacs = NULL
    /\ _head_fries = NULL
    /\ nodes = [i \in NodeIds |-> NoNode]
    /\ heaps = [h \in {1, (MaxNodes \div 2) + 1} |->
                   [used |-> 0, length |-> 0, node_array |-> [i \in {} |-> NULL]]]
    /\ used_fries = 0
    /\ used_bigmaacs = 0
    /\ active_mmaps = 0
    /\ mem = [a \in ReservedBase .. (ReservedBase + 4 + 8 - 1) |-> NoAccess]
    /\ crashed = FALSE
    /\ pc = [t \in Threads |-> "idle"]
    /\ frame = [t \in Threads |-> NoFrame]
    /\ owned = [t \in Threads |-> EmptyBag]
    /\ snap = NoSnap

\* the second test of bigmaac_init that never finds the library initialised
already_init_never(state) == FALSE

\* the second test of bigmaac_init
already_init(state) == state # NOT_LOADED

\* pthread_mutex_lock at the top of bigmaac_init
init_lock(t) ==
    /\ Running
    /\ pc[t] = "init_lock"
    /\ lock = 0
    /\ lock' = t
    /\ pc' = [pc EXCEPT ![t] = "init_check"]
    /\ UNCHANGED <<cfgvars, arenavars, mem, crashed, frame, owned, snap>>

\* the two tests of load_state, then load_state = LOADING_MEM_FUNCS
init_check(t) ==
    /\ Running
    /\ pc[t] = "init_check"
    /\ IF load_state = LIBRARY_FAIL
       THEN \* return, the mutex still held
            /\ pc' = [pc EXCEPT ![t] = "init_ret"]
            /\ UNCHANGED <<load_state, lock>>
       ELSE IF already_init(load_state)
       THEN /\ lock' = 0
            /\ pc' = [pc EXCEPT ![t] = "init_ret"]
            /\ UNCHANGED load_state
       ELSE /\ load_state' = LOADING_MEM_FUNCS
            /\ pc' = [pc EXCEPT ![t] = "init_dlsym"]
            /\ UNCHANGED lock
    /\ UNCHANGED <<resolved, min_size_bigmaac, min_size_fry, fry_size_multiple, page_size,
                   size_fries, size_bigmaac, base_fries, end_fries, base_bigmaac,
                   end_bigmaac, _head_fries, _head_bigmaacs, arenavars, mem, crashed,
                   frame, owned, snap>>

\* the four dlsym calls (a miss is only reported), then load_state = LOADING_LIBRARY
init_dlsym(t) ==
    /\ Running
    /\ pc[t] = "init_dlsym"
    /\ \E found \in DlsymOutcomes : resolved' = found
    /\ load_state' = LOADING_LIBRARY
    /\ pc' = [pc EXCEPT ![t] = "init_env"]
    /\ UNCHANGED <<min_size_bigmaac, min_size_fry, fry_size_multiple, page_size,
                   size_fries, size_bigmaac, base_fries, end_fries, base_bigmaac,
                   end_bigmaac, _head_fries, _head_bigmaacs, arenavars, lock, mem,
                   crashed, frame, owned, snap>>

\* sysconf, the environment, and the test min_size_fry > min_size_bigmaac
init_env(t) ==
    /\ Running
    /\ pc[t] = "init_env"
    /\ page_size' = 4
    /\ \E env \in EnvSettings :
           LET fry == IF env.fry = 0 THEN env.bigmaac ELSE env.fry
           IN  /\ min_size_bigmaac' = env.bigmaac
               /\ min_size_fry' = fry
               /\ IF fry > env.bigmaac
                  THEN \* return, the mutex still held
                       /\ load_state' = LIBRARY_FAIL
                       /\ pc' = [pc EXCEPT ![t] = "init_ret"]
                  ELSE /\ load_state' = load_state
                       /\ pc' = [pc EXCEPT ![t] = "init_arena"]
    /\ UNCHANGED <<resolved, fry_size_multiple, size_fries, size_bigmaac, base_fries,
                   end_fries, base_bigmaac, end_bigmaac, _head_fries, _head_bigmaacs,
                   arenavars, lock, mem, crashed, frame, owned, snap>>

\* the reservation, the attach of the fries, the two ll_new, LOADED, unlock;
\* reserve_ok, attach_ok: mmap and mmap_tmpfile succeed
init_arena(t, reserve_ok, attach_ok) ==
    /\ Running
    /\ pc[t] = "init_arena"
    /\ LET base == ReservedBase
           mid == base + size_fries
           top == base + size_fries + size_bigmaac
           hb == 1
           hf == (MaxNodes \div 2) + 1
       IN  IF ~reserve_ok
           THEN /\ load_state' = LIBRARY_FAIL
                /\ lock' = 0
                /\ pc' = [pc EXCEPT ![t] = "init_ret"]
                /\ UNCHANGED <<base_fries, end_fries, base_bigmaac, end_bigmaac,
                               _head_fries, _head_bigmaacs, arenavars, mem, crashed>>
           ELSE IF ~attach_ok
           THEN /\ load_state' = LIBRARY_FAIL
                /\ base_fries' = base
                /\ active_mmaps' = active_mmaps + 1
                /\ lock' = 0
                /\ pc' = [pc EXCEPT ![t] = "init_ret"]
                /\ UNCHANGED <<end_fries, base_bigmaac, end_bigmaac, _head_fries,
                               _head_bigmaacs, nodes, heaps, used_fries, used_bigmaacs,
                               mem, crashed>>
           ELSE IF "malloc" \notin resolved
           THEN \* ll_new calls real_malloc
                /\ crashed' = TRUE
                /\ base_fries' = base
                /\ end_fries' = mid
                /\ base_bigmaac' = mid
                /\ end_bigmaac' = top
                /\ active_mmaps' = active_mmaps + 2
                /\ mem' = mmap_tmpfile(mem, base, size_fries)
                /\ UNCHANGED <<load_state, lock, pc, _head_fries, _head_bigmaacs, nodes,
                               heaps, used_fries, used_bigmaacs>>
           ELSE /\ load_state' = LOADED
                /\ base_fries' = base
                /\ end_fries' = mid
                /\ base_bigmaac' = mid
                /\ end_bigmaac' = top
                /\ active_mmaps' = active_mmaps + 2
                /\ mem' = mmap_tmpfile(mem, base, size_fries)
                /\ _head_bigmaacs' = hb
                /\ _head_fries' = hf
                /\ nodes' = ll_new_nodes(ll_new_nodes(nodes, hb, mid, size_bigmaac),
                                         hf, base, size_fries)
                /\ heaps' = [h \in {hb, hf} |-> ll_new_heap(h)]
                /\ lock' = 0
                /\ pc' = [pc EXCEPT ![t] = "init_ret"]
                /\ UNCHANGED <<used_fries, used_bigmaacs, crashed>>
    /\ UNCHANGED <<resolved, min_size_bigmaac, min_size_fry, fry_size_multiple, page_size,
                   size_fries, size_bigmaac, frame, owned, snap>>

\* bigmaac_init has returned: the shim goes on
init_ret(t) ==
    /\ Running
    /\ pc[t] = "init_ret"
    /\ LET f == frame[t]
       IN  CASE f.op = "malloc" -> malloc_shim(t, f.size)
             [] f.op = "calloc" -> calloc_shim(t, f.count, f.size)
             [] f.op = "realloc" -> realloc_shim(t, f.ptr, f.size)
             [] OTHER -> free_shim(t, f.ptr)

NextInit ==
    \E t \in Threads :
        \/ MallocCall(t, 2)
        \/ CallocCall(t, 1, 2)
        \/ ReallocCall(t, SysPtr, 2)
        \/ \E ptr \in OwnedPtrs(t) \cup {SysPtr} : FreeCall(t, ptr)
        \/ init_lock(t)
        \/ init_check(t)
        \/ init_dlsym(t)
        \/ init_env(t)
        \/ \E reserve_ok, attach_ok \in BOOLEAN : init_arena(t, reserve_ok, attach_ok)
        \/ init_ret(t)
        \/ CC_Crit(t, TRUE)
        \/ CC_Finish(t, TRUE)
        \/ RM_Crit(t, TRUE)
        \/ Return(t)

SpecInit == InitCold /\ [][NextInit]_vars

-----------------------------------------------------------------------------
(* C17: the load-state machine.                                              *)

\* the moves of load_state
LoadSteps ==
    {<<NOT_LOADED, LOADING_MEM_FUNCS>>, <<LOADING_MEM_FUNCS, LOADING_LIBRARY>>,
     <<LOADING_LIBRARY, LOADED>>, <<LOADING_MEM_FUNCS, LIBRARY_FAIL>>,
     <<LOADING_LIBRARY, LIBRARY_FAIL>>}

\* thread t executes the body of bigmaac_init, past the tests of load_state
InBody(t) == pc[t] \in {"init_dlsym", "init_env", "init_arena"}

\* C17: load_state only moves NOT_LOADED -> LOADING_MEM_FUNCS ->
\* LOADING_LIBRARY -> LOADED or LIBRARY_FAIL, so LOADED and LIBRARY_FAIL are
\* never left; and when several threads make their first shim call at the
\* same time the body of bigmaac_init runs at most once: never two threads
\* are in it, and a thread enters it only with the move NOT_LOADED ->
\* LOADING_MEM_FUNCS, which happens once.
C17_LoadStateMachine ==
    /\ [](Cardinality({t \in Threads : InBody(t)}) <= 1)
    /\ [][/\ load_state' # load_state => <<load_state, load_state'>> \in LoadSteps
          /\ \A t \in Threads :
                 (~InBody(t) /\ InBody(t)')
                 => load_state = NOT_LOADED /\ load_state' = LOADING_MEM_FUNCS]_vars

\* thread 2 made its first call before the library was loaded and is in
\* bigmaac_init after thread 1 has run the body
C17_Witness ==
    /\ load_state = LOADED
    /\ pc[2] = "init_check"
    /\ pc[1] = "idle"

-----------------------------------------------------------------------------
(* C18: calloc while the library loads.                                      *)

\* thread t calls calloc in this step
CallsCalloc(t) == pc[t] = "idle" /\ pc'[t] # "idle" /\ frame'[t].op = "calloc"

\* the call returns NULL and has called neither bigmaac_init nor dlsym
NullNoInit(t) ==
    /\ pc'[t] = "ret"
    /\ frame'[t].val = NULL
    /\ UNCHANGED <<cfgvars, arenavars, lock>>

\* the call goes to real_calloc or to the arena
Served(t) == pc'[t] = "cc_crit" \/ (pc'[t] = "ret" /\ frame'[t].val = SysPtr)

\* C18: a calloc called while load_state is LOADING_MEM_FUNCS returns NULL
\* without calling the initializer or the symbol resolver; a calloc called
\* once load_state is LOADING_LIBRARY or LOADED is served, by real_calloc or
\* from an arena, and does not return NULL that way.
C18_CallocWindow ==
    [][\A t \in Threads :
           CallsCalloc(t)
           => /\ load_state = LOADING_MEM_FUNCS => NullNoInit(t)
              /\ load_state \in {LOADING_LIBRARY, LOADED} => Served(t)]_vars

\* the first half of C18 alone
C18_NullWhileResolving ==
    [][\A t \in Threads :
           (CallsCalloc(t) /\ load_state = LOADING_MEM_FUNCS) => NullNoInit(t)]_vars

-----------------------------------------------------------------------------
(* C19: a failed initialisation.                                             *)

\* the arenas are built: both lists exist and the fries are attached
ArenasBuilt ==
    /\ _head_fries # NULL
    /\ _head_bigmaacs # NULL
    /\ \A a \in base_fries .. (end_fries - 1) : mem[a] # NoAccess

\* thread t calls a shim in this step
Calls(t) == pc[t] = "idle" /\ pc'[t] # "idle"

\* C19: when a step of the initialisation fails (a symbol is not resolved,
\* MIN_FRY > MIN_BIGMAAC, the reservation or the fry attach fails, the
\* arenas are not built) the library ends in LIBRARY_FAIL and never in
\* LOADED; and from then on every malloc, calloc, realloc and free returns
\* what the real allocator returns, without touching the arenas and without
\* entering bigmaac_init again.
C19_FailureIsLatched ==
    /\ [](load_state = LOADED
          => /\ resolved = RealFuncs
             /\ min_size_fry <= min_size_bigmaac
             /\ ArenasBuilt)
    /\ [](\A t \in Threads : pc[t] = "init_ret" => load_state \in {LOADED, LIBRARY_FAIL})
    /\ [][\A t \in Threads :
              (load_state = LIBRARY_FAIL /\ Calls(t))
              => /\ pc'[t] = "ret"
                 /\ frame'[t].val = IF frame'[t].op = "free" THEN NULL ELSE SysPtr
                 /\ ~crashed'
                 /\ UNCHANGED <<cfgvars, arenavars, lock, mem>>]_vars

\* the failures that do reach LIBRARY_FAIL: MIN_FRY > MIN_BIGMAAC, the
\* reservation, the fry attach
C19_DetectedFailures ==
    /\ [](load_state = LOADED => min_size_fry <= min_size_bigmaac /\ ArenasBuilt)
    /\ [](\A t \in Threads : pc[t] = "init_ret" => load_state \in {LOADED, LIBRARY_FAIL})

-----------------------------------------------------------------------------
(* C20: system calls that fail.  One thread calls malloc and free; the       *)
(* allocation of a node record, the attach and the detach may each fail.     *)

NextFaults ==
    \/ \E size \in {2, 4} : MallocCall(1, size)
    \/ \E ptr \in OwnedPtrs(1) : FreeCall(1, ptr)
    \/ \E node_ok \in BOOLEAN : CC_Crit(1, node_ok)
    \/ \E attach_ok \in BOOLEAN : CC_Finish(1, attach_ok)
    \/ \E detach_ok \in BOOLEAN : RM_Crit(1, detach_ok)
    \/ Return(1)

SpecFaults == Init /\ [][NextFaults]_vars

\* in this step thread t's malloc, having carved a bigmaac block, returns NULL
AttachFails(t) ==
    /\ pc[t] = "cc_finish"
    /\ frame[t].op = "malloc"
    /\ frame[t].head = _head_bigmaacs
    /\ pc'[t] = "ret"
    /\ frame'[t].val = NULL

\* C20: when a bigmaac request has been carved from the arena and the attach
\* of its file then fails, malloc returns NULL (ENOMEM) and what it did is
\* undone: the block is FREE again and merged, the used counter is what it
\* was, and no mapping is left over the block, so that the arena is as it
\* was before the call.
C20_AttachFailureUndone ==
    [][\A t \in Threads :
           AttachFails(t)
           => /\ frame'[t].errno = ENOMEM
              /\ snap.phase = "alloc"
              /\ ArenaView' = snap.view]_vars

\* what does hold when mmap_tmpfile fails before or at its mmap: NULL with
\* ENOMEM, and nothing is attached
C20_NullAndDetached ==
    [][\A t \in Threads :
           AttachFails(t)
           => /\ frame'[t].errno = ENOMEM
              /\ Attached' = Attached]_vars

-----------------------------------------------------------------------------
(* C21: which block heap_pop_split carves.  A fry arena of 16 bytes that the *)
(* caller has filled with six blocks; one thread frees them and calls        *)
(* malloc when the heap holds a root and two children, of equal and of       *)
(* different sizes.                                                          *)

\* the sizes of the six malloc calls that filled the arena
PickSizes == <<4, 2, 2, 2, 4, 2>>

\* the start of the k-th block of PickSizes, relative to the arena base
RECURSIVE PickOffset(_)
PickOffset(k) == IF k = 1 THEN 0 ELSE PickOffset(k - 1) + PickSizes[k - 1]

InitPick ==
    /\ load_state = LOADED
    /\ resolved = RealFuncs
    /\ lock = 0
    /\ min_size_fry = 1
    /\ min_size_bigmaac = 4
    /\ fry_size_multiple = 2
    /\ page_size = 4
    /\ size_fries = 16
    /\ size_bigmaac = 4
    /\ base_fries = 8
    /\ end_fries = 24
    /\ base_bigmaac = 24
    /\ end_bigmaac = 28
    /\ _head_bigmaacs = 1
    /\ _head_fries = 3
    /\ LET fresh == ll_new_nodes(ll_new_nodes([i \in NodeIds |-> NoNode], 1, 24, 4), 3, 8, 16)
           st == carve_all([n |-> fresh, h |-> ll_new_heap(3)], PickSizes)
           c == Canon(st.n, [h \in {1, 3} |-> IF h = 1 THEN ll_new_heap(1) ELSE st.h],
                      [t \in Threads |-> NoFrame])
       IN  /\ nodes = c.nodes
           /\ heaps = c.heaps
    /\ used_fries = 16
    /\ used_bigmaacs = 0
    /\ active_mmaps = 2
    /\ mem = [a \in 8 .. 27 |->
                 IF a >= 24 THEN NoAccess
                 ELSE LET k == CHOOSE j \in DOMAIN PickSizes :
                                   8 + PickOffset(j) <= a
                                   /\ a < 8 + PickOffset(j) + PickSizes[j]
                      IN  Pattern(a - (8 + PickOffset(k)))]
    /\ crashed = FALSE
    /\ pc = [t \in Threads |-> "idle"]
    /\ frame = [t \in Threads |-> NoFrame]
    /\ owned = [t \in Threads |->
                   IF t = 1 THEN SetToBag({8 + PickOffset(k) : k \in DOMAIN PickSizes})
                   ELSE EmptyBag]
    /\ snap = NoSnap

\* the caller asks for memory again once three FREE blocks lie apart
NextPick ==
    \/ \E size \in {2, 4} : heaps[_head_fries].used >= 3 /\ MallocCall(1, size)
    \/ CC_Crit(1, TRUE)
    \/ CC_Finish(1, TRUE)
    \/ \E ptr \in OwnedPtrs(1) : FreeCall(1, ptr)
    \/ RM_Crit(1, TRUE)
    \/ Return(1)

SpecPick == InitPick /\ [][NextPick]_vars

-----------------------------------------------------------------------------
(* C21: the block that is carved.                                            *)

SlotSize(head, i) == nodes[heaps[head].node_array[i]].size

\* slot i is in use and its block has room for size
Qualifies(head, i, size) == i < heaps[head].used /\ SlotSize(head, i) >= size

\* the slots the claim allows: a qualifying child before the root, the
\* smaller of two qualifying children
ClaimedSlots(head, size) ==
    IF Qualifies(head, 1, size) /\ Qualifies(head, 2, size)
    THEN {i \in {1, 2} : \A j \in {1, 2} : SlotSize(head, i) <= SlotSize(head, j)}
    ELSE IF Qualifies(head, 1, size) THEN {1}
    ELSE IF Qualifies(head, 2, size) THEN {2}
    ELSE {0}

\* the same, but the root when the right child alone qualifies and is as
\* large as the root
SlotsButEqualRight(head, size) ==
    IF /\ ~Qualifies(head, 1, size)
       /\ Qualifies(head, 2, size)
       /\ SlotSize(head, 2) = SlotSize(head, 0)
    THEN {0}
    ELSE ClaimedSlots(head, size)

\* in this step thread t's create_chunk carves a block from a heap whose
\* root has room for the rounded request
Carves(t) ==
    /\ pc[t] = "cc_crit"
    /\ heaps[HeadFor(frame[t].size)].used > 0
    /\ SlotSize(HeadFor(frame[t].size), 0) >= RoundedFor(frame[t].size)
    /\ pc'[t] = "cc_finish"

\* the block carved starts where the block of one of the slots started
CarvedFrom(t, slots) ==
    \E i \in slots :
        nodes'[frame'[t].chunk].ptr
            = nodes[heaps[HeadFor(frame[t].size)].node_array[i]].ptr

\* C21: when the heap is not empty and its root has room for the request,
\* the block carved is the root or one of its children (slots 1 and 2) with
\* room for the request: a qualifying child whenever one qualifies, the
\* smaller child when both qualify, the root only when no child qualifies.
C21_ChildBeforeRoot ==
    [][\A t \in Threads :
           Carves(t)
           => CarvedFrom(t, ClaimedSlots(HeadFor(frame[t].size),
                                         RoundedFor(frame[t].size)))]_vars

\* what holds: as C21, except that the root is carved when only the right
\* child qualifies and has the size of the root
C21_ButEqualRight ==
    [][\A t \in Threads :
           Carves(t)
           => CarvedFrom(t, SlotsButEqualRight(HeadFor(frame[t].size),
                                               RoundedFor(frame[t].size)))]_vars

-----------------------------------------------------------------------------
(* C22: calls through the real_* pointers.                                   *)

\* the step is one of thread t in a shim, at its entry or after bigmaac_init
\* has returned to it; the only fault of such a step is a call through a
\* real_* pointer that is NULL
ShimStep(t) ==
    \/ MallocCall(t, 2)
    \/ CallocCall(t, 1, 2)
    \/ ReallocCall(t, SysPtr, 2)
    \/ \E ptr \in OwnedPtrs(t) \cup {SysPtr} : FreeCall(t, ptr)
    \/ init_ret(t)

\* C22: in every interleaving, a second thread entering malloc, realloc or
\* free while the first is initialising included, no shim calls through
\* real_malloc, real_free, real_calloc or real_realloc while that pointer is
\* still NULL.
C22_NoNullCall ==
    [][\A t \in Threads : ShimStep(t) => ~crashed']_vars

\* what holds: once dlsym has set all four pointers no shim calls through NULL
C22_WhenResolved ==
    [][\A t \in Threads : (ShimStep(t) /\ resolved = RealFuncs) => ~crashed']_vars

-----------------------------------------------------------------------------
(* C23: the mutex is given back.  The steps inside bigmaac_init and inside   *)
(* the shims are taken sooner or later when they can be taken; nothing       *)
(* obliges a thread to call a shim.                                          *)

\* the steps of thread t that are not calls of a shim
InternalStep(t) ==
    \/ init_lock(t)
    \/ init_check(t)
    \/ init_dlsym(t)
    \/ init_env(t)
    \/ \E reserve_ok, attach_ok \in BOOLEAN : init_arena(t, reserve_ok, attach_ok)
    \/ init_ret(t)
    \/ CC_Crit(t, TRUE)
    \/ CC_Finish(t, TRUE)
    \/ RM_Crit(t, TRUE)
    \/ Return(t)

SpecInitFair == SpecInit /\ \A t \in Threads : WF_vars(InternalStep(t))

\* thread t is outside bigmaac_init and outside the locked sections
Outside(t) == pc[t] \in {"idle", "init_ret", "ret", "cc_finish"}

\* C23: the mutex is never leaked: whenever bigmaac_init has returned, by
\* whichever exit (success, already initialised, already failed, MIN_FRY >
\* MIN_BIGMAAC, reservation failure, fry attach failure), and whenever a shim
\* has returned, the thread does not hold the mutex; so a thread that waits
\* for the mutex gets it in the end (unless the process has died).
C23_MutexGivenBack ==
    /\ [](\A t \in Threads : Outside(t) => lock # t)
    /\ \A t \in Threads : (pc[t] = "init_lock") ~> (pc[t] # "init_lock" \/ crashed)

\* what holds: a thread leaves bigmaac_init with the mutex only when the
\* library has failed
C23_LeakOnlyOnFail ==
    \A t \in Threads : (Outside(t) /\ lock = t) => load_state = LIBRARY_FAIL

=============================================================================
